---- MODULE Spec2Model ----
(***************************************************************************)
(* A model of bkt's on-disk cache (src/src/lib.rs): CommandDesc::cache_key, *)
(* FileLock, Cache::{lookup, store, cleanup} and Bkt::{execute, ...}.      *)
(*                                                                         *)
(* The shared state is the file system under the cache root.  Every Cache  *)
(* and Bkt method is a sequence of system calls; each action below is one  *)
(* system call (or a run of calls that touch no shared file) of one        *)
(* thread, so that threads and processes interleave between system calls   *)
(* as they do on the real file system.                                     *)
(*                                                                         *)
(* Time is counted in units of 1/SubSec second, so that a Duration has a   *)
(* whole-second part and a sub-second part and seconds_ceiling is not the  *)
(* identity.                                                               *)
(***************************************************************************)
EXTENDS Integers, Sequences, FiniteSets, TLC

---------------------------------------------------------------------------
(* Bounds of the model.                                                    *)

\* time units per second (the resolution of Duration::subsec_nanos)
SubSec == 2
\* threads / processes that use the cache root
MaxProcs == 2
\* command descriptors 1..MaxDescs
MaxDescs == 3
\* the hasher's range: fingerprints are 0..HashMod-1 (stands for 2^64)
HashMod == 2
\* data files created in one behaviour (the random suffixes drawn)
MaxNames == 3
\* temporary symlinks created in one behaviour (the random suffixes drawn)
MaxTmp == 3
\* distinct results a subprocess can produce
MaxOut == 2
\* top-level calls started in one behaviour
MaxOps == 3
\* clock changes in one behaviour
MaxTicks == 2

---------------------------------------------------------------------------
(* Program constants.                                                      *)

\* Duration::from_secs(60*10): the stale threshold of cleanup.lock
CleanupStaleSecs == 600
\* Duration::from_secs(30): the rate limit of cleanup
RateLimitSecs == 30
\* Duration::from_secs(60): the poll interval of cleanup_thread
PollSecs == 60
\* the all-ones word: !x > 0 fails only for x = AllOnes (u64::MAX in the
\* source; the largest integer of the model checker here)
AllOnes == 2147483647

Procs == 1..MaxProcs
Descs == 1..MaxDescs
Names == 1..MaxNames
TmpNames == 1..MaxTmp
Outs == 1..MaxOut
\* Cache::new(root, None) and Cache::new(root, Some("scope"))
Scopes == {"none", "scope"}

\* Durations the callers pass as ttl / max_age: 0, half a second, one
\* second, a second and a half, ... (in units of 1/SubSec second)
Durations == 0..(SubSec + 1)

Secs(n) == n * SubSec

---------------------------------------------------------------------------
(* Pure functions.                                                         *)

\* CommandDesc::cache_key: a deterministic hash of the descriptor; the
\* range is smaller than the domain, so two descriptors can collide.
cache_key(d) == d % HashMod

as_secs(duration) == duration \div SubSec
subsec_nanos(duration) == duration % SubSec

seconds_ceiling(duration) ==
    as_secs(duration) + (IF subsec_nanos(duration) # 0 THEN 1 ELSE 0)

\* the assertion at the head of Cache::store, as written:
\*   !ttl.as_secs() > 0 || ttl.subsec_nanos() > 0
\* where ! on an unsigned integer is the bitwise complement.
ttl_assert(ttl) == (AllOnes - as_secs(ttl)) > 0 \/ subsec_nanos(ttl) > 0

\* An Invocation; stderr and status are carried along with stdout.
NoInv == [command |-> 0, stdout |-> 0, runtime |-> 0]
Inv(d, o) == [command |-> d, stdout |-> o, runtime |-> o]
Invocations == {Inv(d, o) : d \in Descs, o \in Outs}

\* Cache::serialize: the fields in declaration order.  An empty file is
\* <<>>.
serialize(inv) == <<inv.command, inv.stdout, inv.runtime>>

\* Cache::deserialize: fails on anything that is not a whole record.
CanDeserialize(bytes) == Len(bytes) = 3
deserialize(bytes) ==
    [command |-> bytes[1], stdout |-> bytes[2], runtime |-> bytes[3]]

---------------------------------------------------------------------------
(* The file system under the cache root.                                   *)

VARIABLES
    now,          \* SystemTime::now()
    rootExists,   \* the cache root directory exists
    data,         \* data/<n>/bkt-data.<name>: [ex, bytes, mtime]
    keys,         \* keys/[scope/]<fingerprint>: the symlink's target path
    tmps,         \* keys/[scope/]bkt-symlink.<name>: the symlink's target
    lock,         \* cleanup.lock: [ex, pid, mtime]
    lastCleanup,  \* last_cleanup: [ex, mtime]
    badDir,       \* data/ holds a directory whose name is not a number
    nData,        \* random data-file names drawn so far
    nTmp,         \* random symlink names drawn so far
    th,           \* the threads: program counter, arguments and locals
    nOps,         \* calls started so far
    nTicks        \* clock changes so far

fsvars == <<rootExists, data, keys, tmps, lock, lastCleanup, badDir,
           nData, nTmp>>
vars == <<now, rootExists, data, keys, tmps, lock, lastCleanup, badDir,
          nData, nTmp, th, nOps, nTicks>>

\* data/<n>/ directories that store can create, and the data paths
TtlDirs == {seconds_ceiling(t) : t \in Durations}
Paths == TtlDirs \X Names
NoPath == <<>>
\* by: the thread that holds the file open for writing (0: nobody)
NoFile == [ex |-> FALSE, bytes |-> <<>>, mtime |-> 0, by |-> 0]
NoLock == [ex |-> FALSE, pid |-> 0, mtime |-> 0]
NoMark == [ex |-> FALSE, mtime |-> 0]
Fps == 0..(HashMod - 1)

\* Cache::new: key_dir is <root>/keys, with the scope pushed when there is
\* one; data_dir is <root>/data whatever the scope.
key_dir_unscoped(scope) == <<"keys">>
key_dir(scope) == IF scope = "none" THEN <<"keys">> ELSE <<"keys", scope>>
KeyDirs == {key_dir(s) : s \in Scopes}

\* following a symlink: the file a link to `path` resolves to
Resolve(path) == IF path = NoPath THEN NoFile ELSE data[path]

\* SystemTime::elapsed(): Err when the time lies in the future
ElapsedOk(mtime) == mtime <= now
Elapsed(mtime) == now - mtime

---------------------------------------------------------------------------
(* Threads.                                                                *)

NoRet == [kind |-> "none", inv |-> NoInv, t |-> 0]
RetNone == [kind |-> "none", inv |-> NoInv, t |-> 0]
RetErr == [kind |-> "err", inv |-> NoInv, t |-> 0]
RetOk == [kind |-> "ok", inv |-> NoInv, t |-> 0]
RetPanic == [kind |-> "panic", inv |-> NoInv, t |-> 0]
RetSome(inv, t) == [kind |-> "some", inv |-> inv, t |-> t]

NoCall == [op |-> "new", scope |-> "none", cmd |-> 0, dur |-> 0,
           inv |-> NoInv, ret |-> NoRet, age |-> -1, runs |-> 0,
           exit |-> ""]

\* A thread that has not called anything yet.
Idle == [pc |-> "idle", op |-> "new", scope |-> "none", cmd |-> 0,
         dur |-> 0, inv |-> NoInv, ret |-> NoRet,
         found |-> NoInv, mtime |-> 0, age |-> -1, path |-> NoPath,
         omtime |-> 0, cached |-> "", tmp |-> 0, runs |-> 0,
         lockRes |-> "", exit |-> "", hook |-> 0, wake |-> 0,
         pend |-> NoRet, todoD |-> {}, todoF |-> {}, todoK |-> {},
         cur |-> <<>>, prev |-> NoCall]

\* What a thread keeps of the call it has finished, for the next call's
\* history (prev): the call, its arguments, its result and the age lookup
\* measured (-1: none; -2: the mtime was in the future).
CallOf(t) == [op |-> t.op, scope |-> t.scope, cmd |-> t.cmd, dur |-> t.dur,
              inv |-> t.inv, ret |-> t.ret, age |-> t.age, runs |-> t.runs,
              exit |-> t.exit]

\* A call starts: the locals are fresh, the finished call becomes prev.
Begin(t, op, scope, cmd, dur, inv, pc) ==
    [Idle EXCEPT !.pc = pc, !.op = op, !.scope = scope, !.cmd = cmd,
                 !.dur = dur, !.inv = inv, !.prev = CallOf(t)]

\* where a call returns to: the loop of Bkt::cleanup_thread, or a caller
\* that is free to make its next call
ret_pc(t) == IF t.op = "cleanup_thread" THEN "wk_ret" ELSE "idle"

\* A call returns to its caller.
Return(t, ret) == [t EXCEPT !.pc = ret_pc(t), !.ret = ret]

\* Cache::new creates nothing: the cache root is there already (as the
\* temporary directory of the tests is) or store will create it.
Init ==
    /\ now = 0
    /\ rootExists \in BOOLEAN
    /\ data = [p \in Paths |-> NoFile]
    /\ keys = [k \in KeyDirs |-> [f \in Fps |-> NoPath]]
    /\ tmps = [k \in KeyDirs |-> [n \in TmpNames |-> NoPath]]
    /\ lock = NoLock
    /\ lastCleanup = NoMark
    /\ badDir = FALSE
    /\ nData = 0
    /\ nTmp = 0
    /\ th = [p \in Procs |-> Idle]
    /\ nOps = 0
    /\ nTicks = 0

---------------------------------------------------------------------------
(* The clock.                                                              *)

\* how far the clock moves in one step: one unit, the cleanup rate limit,
\* the stale threshold of the lock
ClockSteps == {1, Secs(RateLimitSecs), Secs(CleanupStaleSecs)}

Tick(d) ==
    /\ nTicks < MaxTicks
    /\ now' = now + d
    /\ nTicks' = nTicks + 1
    /\ UNCHANGED <<fsvars, th, nOps>>

\* The system clock is set back by one unit.
ClockBack ==
    /\ nTicks < MaxTicks
    /\ now > 0
    /\ now' = now - 1
    /\ nTicks' = nTicks + 1
    /\ UNCHANGED <<fsvars, th, nOps>>

---------------------------------------------------------------------------
(* Cache::lookup                                                           *)

\* "Discard data that is too old": elapsed.is_err() || elapsed > max_age
is_stale_ge(mtime, max_age) == ~ElapsedOk(mtime) \/ Elapsed(mtime) >= max_age
is_stale_by_age_only(mtime, max_age) ==
    ElapsedOk(mtime) /\ Elapsed(mtime) > max_age
is_stale(mtime, max_age) == ~ElapsedOk(mtime) \/ Elapsed(mtime) > max_age

\* "Ignore false-positive hits that happened to collide with the hash code"
collides_never(found, command) == FALSE
collides(found, command) == found.command # command

\* the age lookup measured, as the thread keeps it for its history
AgeSeen(mtime) == IF ElapsedOk(mtime) THEN Elapsed(mtime) ELSE -2

\* where _execute goes on a miss: with cleanup = true it first spawns the
\* cleanup worker
miss_pc(t) == IF t.op = "execute_and_cleanup" THEN "ex_spawn" ELSE "ex_miss"

\* lookup returns `ret`: to the caller, or into Bkt::_execute, whose match
\* takes Some to the cached record and None to the subprocess.  (A match
\* that took Some to the subprocess too would run it on every call.)
AfterLookup_rerun(t, ret) ==
    IF t.op = "lookup" THEN Return(t, ret)
    ELSE IF ret.kind = "err"
         THEN Return([t EXCEPT !.cached = ret.kind], RetErr)
    ELSE [t EXCEPT !.pc = miss_pc(t), !.cached = ret.kind]
AfterLookup(t, ret) ==
    IF t.op = "lookup" THEN Return(t, ret)
    ELSE IF ret.kind = "err"
         THEN Return([t EXCEPT !.cached = ret.kind], RetErr)
    ELSE IF ret.kind = "some"
         THEN [t EXCEPT !.pc = "ex_hit", !.cached = ret.kind,
                        !.found = ret.inv, !.mtime = ret.t]
    ELSE [t EXCEPT !.pc = miss_pc(t), !.cached = ret.kind]

\* if found.command != *command { return Ok(None); }: the key stays.  (A
\* lookup that removed the key here would evict the other descriptor's
\* entry.)
on_collision_evict(t) == [t EXCEPT !.pc = "lk_rm"]
on_collision(t) == AfterLookup(t, RetNone)

StartLookup(p, scope, command, max_age) ==
    /\ th[p].pc = "idle"
    /\ nOps < MaxOps
    /\ nOps' = nOps + 1
    /\ th' = [th EXCEPT ![p] =
                 Begin(th[p], "lookup", scope, command, max_age, NoInv, "lk_open")]
    /\ UNCHANGED <<now, fsvars, nTicks>>

\* File::open(&path) and Cache::deserialize(reader)
LookupOpen(p) ==
    LET t == th[p]
        file == Resolve(keys[key_dir(t.scope)][cache_key(t.cmd)])
    IN  /\ t.pc = "lk_open"
        /\ th' = [th EXCEPT ![p] =
                IF ~file.ex THEN AfterLookup(t, RetNone)
                ELSE IF ~CanDeserialize(file.bytes) THEN AfterLookup(t, RetErr)
                ELSE [t EXCEPT !.pc = "lk_stat", !.omtime = file.mtime,
                               !.found = deserialize(file.bytes)]]
        /\ UNCHANGED <<now, fsvars, nOps, nTicks>>

\* std::fs::metadata(&path)?.modified()?, mtime.elapsed(), and the two tests
LookupStat(p) ==
    LET t == th[p]
        file == Resolve(keys[key_dir(t.scope)][cache_key(t.cmd)])
    IN  /\ t.pc = "lk_stat"
        /\ th' = [th EXCEPT ![p] =
                IF ~file.ex THEN AfterLookup(t, RetErr)
                ELSE IF is_stale(file.mtime, t.dur)
                     THEN [t EXCEPT !.pc = "lk_rm", !.mtime = file.mtime,
                                    !.age = AgeSeen(file.mtime)]
                ELSE IF collides(t.found, t.cmd)
                     THEN on_collision([t EXCEPT !.mtime = file.mtime,
                                                 !.age = AgeSeen(file.mtime)])
                ELSE AfterLookup([t EXCEPT !.mtime = file.mtime,
                                           !.age = AgeSeen(file.mtime)],
                                 RetSome(t.found, file.mtime))]
        /\ UNCHANGED <<now, fsvars, nOps, nTicks>>

\* std::fs::remove_file(&path).context(..)?; return Ok(None)
LookupRemove(p) ==
    LET t == th[p]
        f == cache_key(t.cmd)
    IN  /\ t.pc = "lk_rm"
        /\ IF keys[key_dir(t.scope)][f] = NoPath
           THEN /\ th' = [th EXCEPT ![p] = AfterLookup(t, RetErr)]
                /\ keys' = keys
           ELSE /\ th' = [th EXCEPT ![p] = AfterLookup(t, RetNone)]
                /\ keys' = [keys EXCEPT ![key_dir(t.scope)][f] = NoPath]
        /\ UNCHANGED <<now, rootExists, data, tmps, lock, lastCleanup, badDir,
                       nData, nTmp, nOps, nTicks>>

---------------------------------------------------------------------------
(* Cache::store                                                            *)

\* store returns `ret`: to the caller, or into Bkt::_execute / refresh
AfterStore(t, ret) ==
    IF t.op = "store" THEN Return(t, ret)
    ELSE IF ret.kind = "ok" THEN [t EXCEPT !.pc = "ex_stored"]
    ELSE Return(t, ret)

StartStore(p, scope, invocation, ttl) ==
    /\ th[p].pc = "idle"
    /\ nOps < MaxOps
    /\ nOps' = nOps + 1
    /\ th' = [th EXCEPT ![p] =
                 Begin(th[p], "store", scope, invocation.command, ttl,
                       invocation, "st_mkdir")]
    /\ UNCHANGED <<now, fsvars, nTicks>>

\* assert!(..); create_dir_all(&ttl_dir)?; create_dir_all(&self.key_dir)?
StoreMkdir(p) ==
    LET t == th[p]
    IN  /\ t.pc = "st_mkdir"
        /\ IF ttl_assert(t.dur)
           THEN /\ rootExists' = TRUE
                /\ th' = [th EXCEPT ![p].pc = "st_create"]
           ELSE /\ rootExists' = rootExists
                /\ th' = [th EXCEPT ![p] = Return(t, RetPanic)]
        /\ UNCHANGED <<now, data, keys, tmps, lock, lastCleanup, badDir,
                       nData, nTmp, nOps, nTicks>>

\* Cache::filename draws 16 random alphanumerics.  A draw is either a name
\* no file ever had (the next unused one) or, by chance, the name of a file
\* that exists in the directory; the name of a file that existed once and
\* was deleted is not drawn again.
FreshOrTaken(name, drawn, taken) == name = drawn + 1 \/ taken

\* path = Cache::filename(&ttl_dir, "bkt-data");
\* OpenOptions::new().create_new(true).write(true).open(&path)?
StoreCreate(p, name) ==
    LET t == th[p]
        path == <<seconds_ceiling(t.dur), name>>
    IN  /\ t.pc = "st_create"
        /\ FreshOrTaken(name, nData, data[path].ex)
        /\ IF data[path].ex
           THEN /\ th' = [th EXCEPT ![p] = AfterStore(t, RetErr)]
                /\ data' = data
                /\ nData' = nData
           ELSE /\ th' = [th EXCEPT ![p].pc = "st_write", ![p].path = path]
                /\ data' = [data EXCEPT ![path] =
                               [ex |-> TRUE, bytes |-> <<>>, mtime |-> now,
                                by |-> p]]
                /\ nData' = nData + 1
        /\ UNCHANGED <<now, rootExists, keys, tmps, lock, lastCleanup, badDir,
                       nTmp, nOps, nTicks>>

\* Cache::serialize(BufWriter::new(&file), invocation)?: the write goes to
\* the file this thread created, also when it was unlinked meanwhile.
StoreWrite(p) ==
    LET t == th[p]
    IN  /\ t.pc = "st_write"
        /\ th' = [th EXCEPT ![p].pc = "st_symlink"]
        /\ data' = IF data[t.path].ex /\ data[t.path].by = p
                   THEN [data EXCEPT ![t.path] =
                            [ex |-> TRUE, bytes |-> serialize(t.inv),
                             mtime |-> now, by |-> 0]]
                   ELSE data
        /\ UNCHANGED <<now, rootExists, keys, tmps, lock, lastCleanup, badDir,
                       nData, nTmp, nOps, nTicks>>

\* tmp_symlink = Cache::filename(&self.key_dir, "bkt-symlink");
\* symlink(&path, &tmp_symlink)?
StoreSymlink(p, name) ==
    LET t == th[p]
    IN  /\ t.pc = "st_symlink"
        /\ FreshOrTaken(name, nTmp, tmps[key_dir(t.scope)][name] # NoPath)
        /\ IF tmps[key_dir(t.scope)][name] # NoPath
           THEN /\ th' = [th EXCEPT ![p] = AfterStore(t, RetErr)]
                /\ tmps' = tmps
                /\ nTmp' = nTmp
           ELSE /\ th' = [th EXCEPT ![p].pc = "st_rename", ![p].tmp = name]
                /\ tmps' = [tmps EXCEPT ![key_dir(t.scope)][name] = t.path]
                /\ nTmp' = nTmp + 1
        /\ UNCHANGED <<now, rootExists, data, keys, lock, lastCleanup, badDir,
                       nData, nOps, nTicks>>

\* rename(2) of a symlink over the key: the key names the symlink's target
\* from then on, and at no moment is the key missing.  (A replacement that
\* unlinks an existing key first would leave it missing in between.)
rename_unlinks(ks, dir, f, target) ==
    [ks EXCEPT ![dir][f] = IF ks[dir][f] = NoPath THEN target ELSE NoPath]
rename_over(ks, dir, f, target) == [ks EXCEPT ![dir][f] = target]

\* std::fs::rename(&tmp_symlink, self.key_dir.join(cache_key))?
StoreRename(p) ==
    LET t == th[p]
        f == cache_key(t.inv.command)
    IN  /\ t.pc = "st_rename"
        /\ IF tmps[key_dir(t.scope)][t.tmp] = NoPath
           THEN /\ th' = [th EXCEPT ![p] = AfterStore(t, RetErr)]
                /\ UNCHANGED <<keys, tmps>>
           ELSE /\ th' = [th EXCEPT ![p] = AfterStore(t, RetOk)]
                /\ keys' = rename_over(keys, key_dir(t.scope), f, tmps[key_dir(t.scope)][t.tmp])
                /\ tmps' = [tmps EXCEPT ![key_dir(t.scope)][t.tmp] = NoPath]
        /\ UNCHANGED <<now, rootExists, data, lock, lastCleanup, badDir,
                       nData, nTmp, nOps, nTicks>>

---------------------------------------------------------------------------
(* FileLock                                                                *)

\* FileLock::try_acquire(lock_dir, name, consider_stale) by process pid:
\* the result and the lock file afterwards.  create_new fails with
\* NotFound when the directory is missing and with AlreadyExists when the
\* lock file exists; then the file's age decides between Ok(None) and the
\* stale-lock error.
try_acquire_takeover(lk, pid, consider_stale) ==
    IF ~rootExists THEN [res |-> "err_io", lock |-> lk]
    ELSE IF ~lk.ex \/ (ElapsedOk(lk.mtime) /\ Elapsed(lk.mtime) > consider_stale)
         THEN [res |-> "acquired",
               lock |-> [ex |-> TRUE, pid |-> pid, mtime |-> now]]
    ELSE [res |-> "none", lock |-> lk]
try_acquire_no_stale_test(lk, pid, consider_stale) ==
    IF ~rootExists THEN [res |-> "err_io", lock |-> lk]
    ELSE IF ~lk.ex
         THEN [res |-> "acquired",
               lock |-> [ex |-> TRUE, pid |-> pid, mtime |-> now]]
    ELSE [res |-> "none", lock |-> lk]
try_acquire(lk, pid, consider_stale) ==
    IF ~rootExists THEN [res |-> "err_io", lock |-> lk]
    ELSE IF ~lk.ex
         THEN [res |-> "acquired",
               lock |-> [ex |-> TRUE, pid |-> pid, mtime |-> now]]
    ELSE IF ElapsedOk(lk.mtime) /\ Elapsed(lk.mtime) > consider_stale
         THEN [res |-> "err_stale", lock |-> lk]
    ELSE [res |-> "none", lock |-> lk]

\* Drop for FileLock: std::fs::remove_file(&self.lock_file)
drop_lock_keep(lk) == lk
drop_lock(lk) == NoLock

---------------------------------------------------------------------------
(* Cache::cleanup                                                          *)

\* the entries of read_dir(&self.key_dir): keys and temporary symlinks
KeyEntries(scope) ==
    {<<"key", f>> : f \in {g \in Fps : keys[key_dir(scope)][g] # NoPath}}
    \cup {<<"tmp", n>> :
             n \in {m \in TmpNames : tmps[key_dir(scope)][m] # NoPath}}

\* the symlink an entry of the key directory names now
EntryTarget(scope, e) ==
    IF e[1] = "key" THEN keys[key_dir(scope)][e[2]]
    ELSE tmps[key_dir(scope)][e[2]]

\* the entries of read_dir(&self.data_dir); -1 is the directory whose name
\* is not a number
DataDirs == {path[1] : path \in {q \in Paths : data[q].ex}}
            \cup (IF badDir THEN {-1} ELSE {})

\* the entries of read_dir(&ttl_dir)
DirFiles(n) == {path \in Paths : path[1] = n /\ data[path].ex}

\* the test in delete_stale_file: age > ttl, where the metadata or
\* elapsed() failing leaves the file alone
should_delete_ge(file, ttl) ==
    file.ex /\ ElapsedOk(file.mtime) /\ Elapsed(file.mtime) >= ttl
should_delete_never(file, ttl) == FALSE
should_delete(file, ttl) ==
    file.ex /\ ElapsedOk(file.mtime) /\ Elapsed(file.mtime) > ttl

\* "Don't bother if cleanup has been attempted recently"
rate_limited_never(mark) == FALSE
rate_limited(mark) ==
    mark.ex /\ ElapsedOk(mark.mtime) /\ Elapsed(mark.mtime) < Secs(RateLimitSecs)

\* Every way out of the block that owns _lock runs Drop for FileLock
\* before cleanup returns `ret`; `how` names the way out.
cleanup_exit_leak(t, ret, how) ==
    IF how = "swept"
    THEN [t EXCEPT !.pc = "cl_drop", !.pend = ret, !.exit = how]
    ELSE [t EXCEPT !.pc = "idle", !.ret = ret, !.exit = how]
cleanup_exit(t, ret, how) ==
    [t EXCEPT !.pc = "cl_drop", !.pend = ret, !.exit = how]

StartCleanup(p, scope) ==
    /\ th[p].pc = "idle"
    /\ nOps < MaxOps
    /\ nOps' = nOps + 1
    /\ th' = [th EXCEPT ![p] =
                 Begin(th[p], "cleanup", scope, 0, 0, NoInv, "cl_lock")]
    /\ UNCHANGED <<now, fsvars, nTicks>>

\* What cleanup makes of try_acquire's result:
\* if let Ok(Some(_lock)) = .. { .. } Ok(()), so that Ok(None) and Err(..)
\* alike end the call with Ok(()).  (Passing the error on with ? would
\* surface it.)
unacquired_surfaces(res) == IF res = "none" THEN RetOk ELSE RetErr
unacquired_returns(res) == RetOk

\* FileLock::try_acquire(&self.cache_dir, "cleanup",
\* Duration::from_secs(60*10)), up to the result of create_new: the lock is
\* acquired, or the open fails; when it fails with AlreadyExists the
\* metadata of the lock file is read next.
CleanupLock(p) ==
    LET t == th[p]
        r == try_acquire(lock, p, Secs(CleanupStaleSecs))
    IN  /\ t.pc = "cl_lock"
        /\ lock' = r.lock
        /\ th' = [th EXCEPT ![p] =
                IF r.res = "acquired"
                THEN [t EXCEPT !.pc = "cl_rate", !.lockRes = r.res]
                ELSE IF r.res = "err_io"
                THEN Return([t EXCEPT !.lockRes = r.res],
                            unacquired_returns(r.res))
                ELSE [t EXCEPT !.pc = "cl_lockage"]]
        /\ UNCHANGED <<now, rootExists, data, keys, tmps, lastCleanup, badDir,
                       nData, nTmp, nOps, nTicks>>

\* the AlreadyExists arm of try_acquire: std::fs::metadata(&lock_file),
\* which fails when the holder has removed the file meanwhile, and the
\* test of the file's age
CleanupLockAge(p) ==
    LET t == th[p]
        res == IF ~lock.ex THEN "none"
               ELSE try_acquire(lock, p, Secs(CleanupStaleSecs)).res
    IN  /\ t.pc = "cl_lockage"
        /\ th' = [th EXCEPT ![p] =
                Return([t EXCEPT !.lockRes = res], unacquired_returns(res))]
        /\ UNCHANGED <<now, fsvars, nOps, nTicks>>

\* last_attempt_file.metadata(), the rate limit, File::create(..)? and
\* std::fs::read_dir(&self.data_dir)
CleanupRate(p) ==
    LET t == th[p]
    IN  /\ t.pc = "cl_rate"
        /\ IF lastCleanup.ex /\ ~ElapsedOk(lastCleanup.mtime)
           THEN /\ th' = [th EXCEPT ![p] = cleanup_exit(t, RetErr, "error")]
                /\ lastCleanup' = lastCleanup
           ELSE IF rate_limited(lastCleanup)
           THEN /\ th' = [th EXCEPT ![p] = cleanup_exit(t, RetOk, "ratelimited")]
                /\ lastCleanup' = lastCleanup
           ELSE /\ th' = [th EXCEPT ![p].pc = "cl_sweep", ![p].todoD = DataDirs]
                /\ lastCleanup' = [ex |-> TRUE, mtime |-> now]
        /\ UNCHANGED <<now, rootExists, data, keys, tmps, lock, badDir,
                       nData, nTmp, nOps, nTicks>>

\* the outer loop of Phase A: the next entry of data/, its name parsed,
\* std::fs::read_dir(&ttl_dir)?
CleanupDir(p, n) ==
    LET t == th[p]
    IN  /\ t.pc = "cl_sweep"
        /\ t.todoF = {}
        /\ n \in t.todoD
        /\ th' = [th EXCEPT ![p] =
                IF n = -1 THEN cleanup_exit(t, RetErr, "error")
                ELSE [t EXCEPT !.todoD = t.todoD \ {n}, !.todoF = DirFiles(n)]]
        /\ UNCHANGED <<now, fsvars, nOps, nTicks>>

\* the inner loop of Phase A: let _ = delete_stale_file(&file, ttl)
CleanupFile(p, path) ==
    LET t == th[p]
    IN  /\ t.pc = "cl_sweep"
        /\ path \in t.todoF
        /\ th' = [th EXCEPT ![p].todoF = t.todoF \ {path}]
        /\ data' = IF should_delete(data[path], Secs(path[1]))
                   THEN [data EXCEPT ![path] = NoFile]
                   ELSE data
        /\ UNCHANGED <<now, rootExists, keys, tmps, lock, lastCleanup, badDir,
                       nData, nTmp, nOps, nTicks>>

\* Phase B begins: std::fs::read_dir(&self.key_dir)
CleanupReadKeys(p) ==
    LET t == th[p]
    IN  /\ t.pc = "cl_sweep"
        /\ t.todoF = {}
        /\ t.todoD = {}
        /\ th' = [th EXCEPT ![p] =
                IF KeyEntries(t.scope) = {}
                THEN cleanup_exit(t, RetOk, "swept")
                ELSE [t EXCEPT !.pc = "cl_keys", !.todoK = KeyEntries(t.scope)]]
        /\ UNCHANGED <<now, fsvars, nOps, nTicks>>

\* the loop of Phase B: if !symlink.exists()
CleanupKeyCheck(p, e) ==
    LET t == th[p]
        rest == t.todoK \ {e}
    IN  /\ t.pc = "cl_keys"
        /\ e \in t.todoK
        /\ th' = [th EXCEPT ![p] =
                IF ~Resolve(EntryTarget(t.scope, e)).ex
                THEN [t EXCEPT !.pc = "cl_keyrm", !.cur = e, !.todoK = rest]
                ELSE IF rest = {} THEN cleanup_exit(t, RetOk, "swept")
                ELSE [t EXCEPT !.todoK = rest]]
        /\ UNCHANGED <<now, fsvars, nOps, nTicks>>

\* let _ = std::fs::remove_file(symlink): whatever the name holds now
CleanupKeyRemove(p) ==
    LET t == th[p]
        e == t.cur
    IN  /\ t.pc = "cl_keyrm"
        /\ th' = [th EXCEPT ![p] =
                IF t.todoK = {} THEN cleanup_exit(t, RetOk, "swept")
                ELSE [t EXCEPT !.pc = "cl_keys", !.cur = <<>>]]
        /\ keys' = IF e[1] = "key" THEN [keys EXCEPT ![key_dir(t.scope)][e[2]] = NoPath]
                   ELSE keys
        /\ tmps' = IF e[1] = "tmp" THEN [tmps EXCEPT ![key_dir(t.scope)][e[2]] = NoPath]
                   ELSE tmps
        /\ UNCHANGED <<now, rootExists, data, lock, lastCleanup, badDir,
                       nData, nTmp, nOps, nTicks>>

\* _lock goes out of scope: Drop for FileLock, then cleanup returns
CleanupDrop(p) ==
    LET t == th[p]
    IN  /\ t.pc = "cl_drop"
        /\ lock' = drop_lock(lock)
        /\ th' = [th EXCEPT ![p] = Return(t, t.pend)]
        /\ UNCHANGED <<now, rootExists, data, keys, tmps, lastCleanup, badDir,
                       nData, nTmp, nOps, nTicks>>

\* Something outside the program leaves a directory in data/ whose name
\* is not a number.
ForeignDir ==
    /\ rootExists
    /\ ~badDir
    /\ badDir' = TRUE
    /\ UNCHANGED <<now, rootExists, data, keys, tmps, lock, lastCleanup,
                   nData, nTmp, th, nOps, nTicks>>

---------------------------------------------------------------------------
(* Bkt::execute                                                            *)

StartExecute(p, scope, command, ttl) ==
    /\ th[p].pc = "idle"
    /\ nOps < MaxOps
    /\ nOps' = nOps + 1
    /\ th' = [th EXCEPT ![p] =
                 Begin(th[p], "execute", scope, command, ttl, NoInv, "lk_open")]
    /\ UNCHANGED <<now, fsvars, nTicks>>

\* Bkt::refresh begins with Bkt::execute_subprocess(command)?; it never
\* calls lookup.  (A refresh that began with lookup would be execute.)
refresh_via_lookup == "lk_open"
refresh_entry == "ex_miss"

StartRefresh(p, scope, command, ttl) ==
    /\ th[p].pc = "idle"
    /\ nOps < MaxOps
    /\ nOps' = nOps + 1
    /\ th' = [th EXCEPT ![p] =
                 Begin(th[p], "refresh", scope, command, ttl, NoInv,
                       refresh_entry)]
    /\ UNCHANGED <<now, fsvars, nTicks>>

\* Some((cached, mtime)) => (cached, mtime.elapsed()?)
ExecuteHit(p) ==
    LET t == th[p]
    IN  /\ t.pc = "ex_hit"
        /\ th' = [th EXCEPT ![p] =
                IF ElapsedOk(t.mtime)
                THEN Return(t, RetSome(t.found, Elapsed(t.mtime)))
                ELSE Return(t, RetErr)]
        /\ UNCHANGED <<now, fsvars, nOps, nTicks>>

\* None => Bkt::execute_subprocess(command)?, and the same call at the
\* head of refresh: the child runs and yields result `out`, or cannot be
\* spawned (out = 0)
ExecuteSubprocess(p, out) ==
    LET t == th[p]
    IN  /\ t.pc = "ex_miss"
        /\ th' = [th EXCEPT ![p] =
                IF out = 0 THEN Return(t, RetErr)
                ELSE [t EXCEPT !.pc = "st_mkdir", !.inv = Inv(t.cmd, out),
                               !.runs = t.runs + 1]]
        /\ UNCHANGED <<now, fsvars, nOps, nTicks>>

\* self.cache.store(&result, ttl)? has returned: (result, Duration::default())
\* from _execute, Ok(result) from refresh
ExecuteStored(p) ==
    LET t == th[p]
    IN  /\ t.pc = "ex_stored"
        /\ th' = [th EXCEPT ![p] =
                IF t.hook # 0 THEN [t EXCEPT !.pc = "ex_join"]
                ELSE Return(t, RetSome(t.inv, 0))]
        /\ UNCHANGED <<now, fsvars, nOps, nTicks>>

StartExecuteAndCleanup(p, scope, command, ttl) ==
    /\ th[p].pc = "idle"
    /\ nOps < MaxOps
    /\ nOps' = nOps + 1
    /\ th' = [th EXCEPT ![p] =
                 Begin(th[p], "execute_and_cleanup", scope, command, ttl,
                       NoInv, "lk_open")]
    /\ UNCHANGED <<now, fsvars, nTicks>>

\* cleanup_hook = Some(self.cleanup_once()): thread q starts
\* cache.cleanup() on a clone of the cache
ExecuteSpawnCleanup(p, q) ==
    LET t == th[p]
    IN  /\ t.pc = "ex_spawn"
        /\ q # p
        /\ th[q].pc = "idle"
        /\ th' = [th EXCEPT
                    ![p] = [t EXCEPT !.pc = "ex_miss", !.hook = q],
                    ![q] = Begin(th[q], "cleanup", t.scope, 0, 0, NoInv,
                                 "cl_lock")]
        /\ UNCHANGED <<now, fsvars, nOps, nTicks>>

\* if let Err(e) = cleanup_hook.join().expect(..) { eprintln!(..) }: the
\* worker's error is printed, and _execute returns its own result.  (A
\* join that passed the error on would make the call fail.)
join_propagates(t, worker) ==
    IF worker.kind = "err" THEN RetErr ELSE RetSome(t.inv, 0)
join_prints(t, worker) == RetSome(t.inv, 0)

\* cleanup_hook.join(): waits until the worker has returned
ExecuteJoin(p) ==
    LET t == th[p]
    IN  /\ t.pc = "ex_join"
        /\ th[t.hook].pc = "idle"
        /\ th' = [th EXCEPT ![p] = Return(t, join_prints(t, th[t.hook].ret))]
        /\ UNCHANGED <<now, fsvars, nOps, nTicks>>

---------------------------------------------------------------------------
(* Bkt::cleanup_thread                                                     *)

\* let poll_duration = Duration::from_secs(60)
poll_duration == Secs(PollSecs)

\* std::thread::spawn(move || { loop { .. } }) on a clone of the cache
cleanup_thread(p, scope) ==
    /\ th[p].pc = "idle"
    /\ th' = [th EXCEPT ![p] =
                 Begin(th[p], "cleanup_thread", scope, 0, 0, NoInv, "wk_loop")]
    /\ UNCHANGED <<now, fsvars, nOps, nTicks>>

\* the top of the loop: cache.cleanup()
WorkerCleanup(p) ==
    LET t == th[p]
    IN  /\ t.pc = "wk_loop"
        /\ th' = [th EXCEPT ![p] =
                     Begin(t, "cleanup_thread", t.scope, 0, 0, NoInv, "cl_lock")]
        /\ UNCHANGED <<now, fsvars, nOps, nTicks>>

\* if let Err(e) = .. { eprintln!(..) }; std::thread::sleep(poll_duration)
WorkerSleep(p) ==
    LET t == th[p]
    IN  /\ t.pc = "wk_ret"
        /\ th' = [th EXCEPT ![p] = [t EXCEPT !.pc = "wk_sleep",
                                              !.wake = poll_duration]]
        /\ UNCHANGED <<now, fsvars, nOps, nTicks>>

\* sleep returns, not before poll_duration has passed
WorkerWake(p) ==
    LET t == th[p]
    IN  /\ t.pc = "wk_sleep"
        /\ t.wake = 0
        /\ th' = [th EXCEPT ![p].pc = "wk_loop"]
        /\ UNCHANGED <<now, fsvars, nOps, nTicks>>

\* The process of thread p is killed while its FileLock is alive: Drop
\* for FileLock never runs and cleanup.lock stays; nothing is left of the
\* thread.
Killed(p) ==
    /\ th[p].pc \in {"cl_rate", "cl_sweep", "cl_keys", "cl_keyrm", "cl_drop"}
    /\ th' = [th EXCEPT ![p] = [Idle EXCEPT !.pc = "dead"]]
    /\ UNCHANGED <<now, fsvars, nOps, nTicks>>

\* Ages that no test of the code tells apart: of a data file, beyond the
\* seconds of every ttl directory (delete_stale_file); of last_cleanup,
\* from the rate limit on; of the lock file, beyond the stale threshold.
DataAgeCap == Secs(seconds_ceiling(SubSec + 1)) + 1
MarkAgeCap == Secs(RateLimitSecs)
LockAgeCap == Secs(CleanupStaleSecs) + 1

\* an mtime once d more has passed, the present taken as the origin
Older(mtime, d, cap) ==
    IF mtime - d < now - cap THEN now - cap ELSE mtime - d

\* Time d passes, kept relative to the present: every mtime moves d into
\* the past, and every sleeping thread has d less to sleep.
Elapse(d) ==
    /\ data' = [path \in Paths |->
                  IF data[path].ex
                  THEN [data[path] EXCEPT !.mtime = Older(@, d, DataAgeCap)]
                  ELSE data[path]]
    /\ lock' = IF lock.ex THEN [lock EXCEPT !.mtime = Older(@, d, LockAgeCap)] ELSE lock
    /\ lastCleanup' = IF lastCleanup.ex
                      THEN [lastCleanup EXCEPT !.mtime = Older(@, d, MarkAgeCap)]
                      ELSE lastCleanup
    /\ th' = [p \in Procs |->
                 [th[p] EXCEPT !.wake = IF @ > d THEN @ - d ELSE 0]]
    /\ UNCHANGED <<now, rootExists, keys, tmps, badDir, nData, nTmp, nOps,
                   nTicks>>

---------------------------------------------------------------------------
(* Specifications.                                                         *)

LookupSteps(p) == LookupOpen(p) \/ LookupStat(p) \/ LookupRemove(p)

StoreSteps(p) ==
    \/ StoreMkdir(p)
    \/ \E n \in Names : StoreCreate(p, n)
    \/ StoreWrite(p)
    \/ \E n \in TmpNames : StoreSymlink(p, n)
    \/ StoreRename(p)

\* the steps of a cleanup that finds no lock file left by another caller
CleanupUncontended(p) ==
    \/ CleanupLock(p)
    \/ CleanupRate(p)
    \/ \E n \in TtlDirs \cup {-1} : CleanupDir(p, n)
    \/ \E path \in Paths : CleanupFile(p, path)
    \/ CleanupReadKeys(p)
    \/ \E e \in ({"key"} \X Fps) \cup ({"tmp"} \X TmpNames) : CleanupKeyCheck(p, e)
    \/ CleanupKeyRemove(p)
    \/ CleanupDrop(p)

CleanupSteps(p) ==
    \/ CleanupLockAge(p)
    \/ CleanupUncontended(p)

ExecuteSteps(p) ==
    \/ ExecuteHit(p)
    \/ \E out \in Outs \cup {0} : ExecuteSubprocess(p, out)
    \/ ExecuteStored(p)

HookSteps(p) ==
    \/ \E q \in Procs : ExecuteSpawnCleanup(p, q)
    \/ ExecuteJoin(p)

WorkerSteps(p) ==
    \/ WorkerCleanup(p)
    \/ WorkerSleep(p)
    \/ WorkerWake(p)

\* Every call, by every thread, on every input, under a clock that can
\* also be set back, with a foreign directory in data/.
Next ==
    \/ \E d \in ClockSteps : Tick(d)
    \/ ClockBack
    \/ Elapse(poll_duration)
    \/ ForeignDir
    \/ \E p \in Procs :
        \/ \E s \in Scopes : cleanup_thread(p, s)
        \/ WorkerSteps(p)
        \/ Killed(p)
        \/ \E s \in Scopes, d \in Descs, m \in Durations : StartLookup(p, s, d, m)
        \/ \E s \in Scopes, i \in Invocations, ttl \in Durations :
               StartStore(p, s, i, ttl)
        \/ \E s \in Scopes : StartCleanup(p, s)
        \/ \E s \in Scopes, d \in Descs, ttl \in Durations :
               StartExecute(p, s, d, ttl)
        \/ \E s \in Scopes, d \in Descs, ttl \in Durations :
               StartRefresh(p, s, d, ttl)
        \/ \E s \in Scopes, d \in Descs, ttl \in Durations :
               StartExecuteAndCleanup(p, s, d, ttl)
        \/ HookSteps(p)
        \/ LookupSteps(p)
        \/ StoreSteps(p)
        \/ CleanupSteps(p)
        \/ ExecuteSteps(p)

Spec == Init /\ [][Next]_vars

\* The ttl and max_age of the sequential scenarios: half a second and a
\* whole second.
SeqDurations == {1, SubSec}

\* One thread calls lookup and store one after the other on the cache
\* without scope; the clock moves between and during the calls, also
\* backwards.
NextSeq ==
    \/ Tick(1)
    \/ ClockBack
    \/ \E d \in Descs, m \in SeqDurations : StartLookup(1, "none", d, m)
    \/ \E i \in Invocations, ttl \in SeqDurations : StartStore(1, "none", i, ttl)
    \/ LookupSteps(1)
    \/ StoreSteps(1)

SpecSeq == Init /\ [][NextSeq]_vars

\* The record a scenario stores under a scope: A (stdout 1) without scope,
\* B (stdout 2) under the scope, as cache_tests::scoped does.
ScopedInv(scope, d) == Inv(d, IF scope = "none" THEN 1 ELSE 2)

\* One thread calls lookup and store one after the other on two caches of
\* the same root, one without scope and one with; the clock moves forward.
NextScope ==
    \/ Tick(1)
    \/ \E s \in Scopes, d \in Descs, m \in SeqDurations : StartLookup(1, s, d, m)
    \/ \E s \in Scopes, d \in Descs, ttl \in SeqDurations :
           StartStore(1, s, ScopedInv(s, d), ttl)
    \/ LookupSteps(1)
    \/ StoreSteps(1)

SpecScope == Init /\ [][NextScope]_vars

\* The descriptors that share the fingerprint of the last one: with
\* several of them, lookups and stores of different commands meet on one key.
SameFp == {d \in Descs : cache_key(d) = cache_key(MaxDescs)}

\* Two threads call lookup and store on the cache without scope, on
\* descriptors of one fingerprint, their steps interleaved in every order;
\* the record thread p stores carries p as its output.
NextConc ==
    \/ Tick(1)
    \/ \E p \in Procs :
        \/ \E d \in SameFp, m \in SeqDurations : StartLookup(p, "none", d, m)
        \/ \E d \in SameFp : StartStore(p, "none", Inv(d, p), SubSec)
        \/ LookupSteps(p)
        \/ StoreSteps(p)

SpecConc == Init /\ [][NextConc]_vars

\* Two threads call lookup, store and cleanup on the cache without scope,
\* on descriptors of one fingerprint, their steps interleaved in every
\* order; the clock moves by one unit or past every ttl.
NextAll ==
    \/ \E d \in {1, Secs(RateLimitSecs)} : Tick(d)
    \/ \E p \in Procs :
        \/ \E d \in SameFp : StartLookup(p, "none", d, SubSec)
        \/ \E d \in SameFp : StartStore(p, "none", Inv(d, p), SubSec)
        \/ StartCleanup(p, "none")
        \/ LookupSteps(p)
        \/ StoreSteps(p)
        \/ CleanupSteps(p)

SpecAll == Init /\ [][NextAll]_vars

\* One thread stores an entry; both threads call cleanup, on the cache
\* without scope and on the scoped one, their steps interleaved in every
\* order.  The clock moves by one unit, by the rate limit or by the stale
\* threshold of the lock, or is set back; a foreign directory may appear
\* in data/.
NextLock ==
    \/ \E d \in ClockSteps : Tick(d)
    \/ ClockBack
    \/ ForeignDir
    \/ StartStore(1, "none", Inv(1, 1), SubSec)
    \/ StoreSteps(1)
    \/ \E p \in Procs :
        \/ \E s \in Scopes : StartCleanup(p, s)
        \/ CleanupSteps(p)

SpecLock == Init /\ [][NextLock]_vars

\* one descriptor for each fingerprint
OneEachFp == {d \in Descs : d <= HashMod}

\* One thread calls store and cleanup one after the other, on the
\* cache without scope and on the scoped one; the clock moves forward by
\* one unit or past every ttl, also during a call; a foreign directory may
\* appear in data/.  With one caller the lock file exists only while that
\* caller's pass runs, so create_new never meets it.
NextSweep ==
    \/ \E d \in {1, Secs(RateLimitSecs)} : Tick(d)
    \/ ForeignDir
    \/ \E s \in Scopes, d \in OneEachFp, ttl \in {SubSec, SubSec + 1} :
           StartStore(1, s, ScopedInv(s, d), ttl)
    \/ \E s \in Scopes : StartCleanup(1, s)
    \/ StoreSteps(1)
    \/ CleanupUncontended(1)

SpecSweep == Init /\ [][NextSweep]_vars

\* One thread calls Bkt::execute again and again on the cache without
\* scope, on descriptors of one fingerprint; the subprocess yields one of
\* several results or cannot be spawned; the clock moves forward and is
\* set back, also during a call.
NextExec ==
    \/ Tick(1)
    \/ ClockBack
    \/ \E d \in SameFp, ttl \in SeqDurations : StartExecute(1, "none", d, ttl)
    \/ LookupSteps(1)
    \/ ExecuteSteps(1)
    \/ StoreSteps(1)

SpecExec == Init /\ [][NextExec]_vars

\* One thread calls Bkt::execute and Bkt::refresh one after the other on
\* the cache without scope, on descriptors of one fingerprint; the clock
\* moves forward and is set back, also during a call.
NextRefresh ==
    \/ Tick(1)
    \/ ClockBack
    \/ \E d \in SameFp, ttl \in SeqDurations : StartExecute(1, "none", d, ttl)
    \/ \E d \in SameFp, ttl \in SeqDurations : StartRefresh(1, "none", d, ttl)
    \/ LookupSteps(1)
    \/ ExecuteSteps(1)
    \/ StoreSteps(1)

SpecRefresh == Init /\ [][NextRefresh]_vars

\* Thread 1 calls Bkt::execute_and_cleanup of one command again and again
\* on the cache without scope; thread 2 is the cleanup worker it spawns on
\* a miss.  The clock moves by one unit or past every ttl; a foreign
\* directory may appear in data/.  Thread 2 is the only worker (MaxProcs),
\* a next one starts when it has returned, so no worker meets the lock
\* file of another.
NextHook ==
    \/ \E d \in {1, Secs(RateLimitSecs)} : Tick(d)
    \/ ForeignDir
    \/ StartExecuteAndCleanup(1, "none", 1, SubSec)
    \/ LookupSteps(1)
    \/ ExecuteSteps(1)
    \/ HookSteps(1)
    \/ StoreSteps(1)
    \/ CleanupUncontended(2)

SpecHook == Init /\ [][NextHook]_vars

\* the calls of store in the liveness scenario
LiveStores == 1

\* Thread 2 runs Bkt::cleanup_thread on the scoped cache.  Thread 1 stores
\* entries of one second there, then may run Bkt::cleanup_thread on the
\* cache without scope, and its process may be killed while it holds the
\* lock.  Time passes in steps of poll_duration; every ttl directory is
\* well-formed.
NextLive ==
    \/ Elapse(poll_duration)
    \/ nOps < LiveStores /\ StartStore(1, "scope", Inv(1, 1), SubSec)
    \/ StoreSteps(1)
    \/ cleanup_thread(1, "none")
    \/ cleanup_thread(2, "scope")
    \/ Killed(1)
    \/ \E p \in Procs :
        \/ WorkerSteps(p)
        \/ CleanupSteps(p)

\* Time passes; the worker of thread 2 is started; a thread that is not
\* killed goes on with the call it is in, and a worker with its loop.
LiveFair ==
    /\ WF_vars(Elapse(poll_duration))
    /\ WF_vars(cleanup_thread(2, "scope"))
    /\ WF_vars(StoreSteps(1))
    /\ \A p \in Procs : WF_vars(WorkerSteps(p) \/ CleanupSteps(p))

SpecLive == Init /\ [][NextLive]_vars /\ LiveFair

\* One thread calls store and lookup one after the other on the cache
\* without scope, with a ttl and a max_age of zero or of one second.
NextZero ==
    \/ Tick(1)
    \/ \E i \in Invocations, ttl \in {0, SubSec} : StartStore(1, "none", i, ttl)
    \/ \E d \in Descs, m \in {0, SubSec} : StartLookup(1, "none", d, m)
    \/ StoreSteps(1)
    \/ LookupSteps(1)

SpecZero == Init /\ [][NextZero]_vars

---------------------------------------------------------------------------
(* Properties.                                                             *)

Done(t, op) == t.pc = "idle" /\ t.op = op

\* thread p takes a step
Steps(p) == th'[p] # th[p]

\* the lookup measured an age that max_age accepts, or none at all
Accepted(t) == t.age # -2 /\ t.age <= t.dur
\* the lookup found the entry too old or its mtime in the future
Rejected(t) == t.age = -2 \/ t.age > t.dur

\* the key of descriptor d in a scope
KeyOf(scope, d) == keys[key_dir(scope)][cache_key(d)]

\* A lookup that finds no key returns nothing at once.
MissOnAbsentKey ==
    \A p \in Procs :
        (th[p].pc = "lk_open" /\ th[p].op = "lookup" /\ Steps(p)
         /\ KeyOf(th[p].scope, th[p].cmd) = NoPath)
        => Done(th'[p], "lookup") /\ th'[p].ret = RetNone

\* C2: with nothing running in between, a lookup(d, max_age) that finds no
\* key for d returns nothing, and a lookup(d, max_age) right after a
\* successful store(r, ttl) with r.command = d on the same scope returns r,
\* provided the age of the entry does not exceed max_age.
C2_StoreThenLookup ==
    [][/\ MissOnAbsentKey
       /\ \A p \in Procs :
            LET t == th'[p]
            IN  (/\ Done(t, "lookup")
                 /\ t.prev.op = "store" /\ t.prev.ret = RetOk
                 /\ t.prev.scope = t.scope /\ t.prev.inv.command = t.cmd
                 /\ Accepted(t))
                => t.ret.kind = "some" /\ t.ret.inv = t.prev.inv]_vars

\* a lookup, one tick or more after the store it follows, returned the
\* stored record
C2_Witness ==
    \E p \in Procs :
        LET t == th[p]
        IN  /\ Done(t, "lookup") /\ t.scope = "scope"
            /\ t.prev.op = "store" /\ t.prev.ret = RetOk
            /\ t.prev.scope = t.scope /\ t.prev.inv.command = t.cmd
            /\ t.age >= 1
            /\ t.ret.kind = "some" /\ t.ret.inv = t.prev.inv

\* A key that is absent comes into being only by the rename of a store of
\* that fingerprint in that scope.
KeyOnlyByStore ==
    \A s \in Scopes, f \in Fps :
        (keys[key_dir(s)][f] = NoPath /\ keys'[key_dir(s)][f] # NoPath)
        => \E p \in Procs :
              /\ th[p].pc = "st_rename" /\ Steps(p)
              /\ th[p].scope = s /\ cache_key(th[p].inv.command) = f

\* C3: what lookup accepts is decided by its max_age, not by the ttl of the
\* store: an entry of d whose age is at most max_age is returned; one whose
\* age exceeds max_age, or whose mtime is in the future, has its key
\* deleted and nothing is returned; after that every lookup of d returns
\* nothing, whatever its max_age, until a store publishes the key again.
C3_MaxAgeDecides ==
    [][/\ MissOnAbsentKey
       /\ KeyOnlyByStore
       /\ \A p \in Procs :
            LET t == th'[p]
            IN  Done(t, "lookup") =>
                /\ (t.age >= 0 /\ t.age <= t.dur /\ t.found.command = t.cmd)
                       => t.ret = RetSome(t.found, t.mtime)
                /\ Rejected(t)
                       => /\ t.ret = RetNone
                          /\ keys'[key_dir(t.scope)][cache_key(t.cmd)] = NoPath
                /\ (/\ t.prev.op = "lookup" /\ Rejected(t.prev)
                    /\ t.prev.scope = t.scope /\ t.prev.cmd = t.cmd)
                       => t.ret = RetNone]_vars

\* a lookup returned nothing although its max_age accepts the age at which
\* the lookup before it evicted the entry
C3_Witness ==
    \E p \in Procs :
        LET t == th[p]
        IN  /\ Done(t, "lookup") /\ t.ret = RetNone
            /\ t.prev.op = "lookup" /\ t.prev.age > t.prev.dur
            /\ t.prev.scope = t.scope /\ t.prev.cmd = t.cmd
            /\ t.prev.age <= t.dur

\* What lookup(d, max_age) on a scope returns when nothing else runs: the
\* steps of Cache::lookup on the present state of the file system.
LookupOutcome(scope, d, max_age) ==
    LET file == Resolve(KeyOf(scope, d))
    IN  IF ~file.ex THEN RetNone
        ELSE IF ~CanDeserialize(file.bytes) THEN RetErr
        ELSE IF is_stale(file.mtime, max_age) THEN RetNone
        ELSE IF collides(deserialize(file.bytes), d) THEN RetNone
        ELSE RetSome(deserialize(file.bytes), file.mtime)

\* the steps of store, and the step of lookup that evicts
ScopeWriterPcs == {"st_mkdir", "st_create", "st_write", "st_symlink",
                   "st_rename", "lk_rm"}

\* C4: two caches on one root with different scopes do not see each
\* other's keys: no step of a store or of an evicting lookup on one scope
\* changes what a lookup on the other scope returns; after A is stored for
\* d without scope and B for d under the scope, a lookup of d without
\* scope returns A and one under the scope returns B.
C4_ScopeIsolation ==
    [][/\ \A p \in Procs :
            (th[p].pc \in ScopeWriterPcs /\ Steps(p)) =>
                \A s \in Scopes \ {th[p].scope}, d \in Descs, m \in Durations :
                    LookupOutcome(s, d, m)' = LookupOutcome(s, d, m)
       /\ \A p \in Procs, s \in Scopes, d \in Descs :
            LET t == th'[p]
            IN  /\ (/\ Done(t, "store") /\ t.ret = RetOk
                    /\ t.scope = s /\ t.cmd = d
                    /\ t.prev.op = "store" /\ t.prev.ret = RetOk
                    /\ t.prev.scope # s /\ t.prev.cmd = d)
                       => /\ \A s0 \in Scopes \ {s} :
                                LookupOutcome(s0, d, now)'.inv = t.prev.inv
                          /\ LookupOutcome(s, d, now)'.inv = t.inv
                /\ (Done(t, "lookup") /\ t.ret.kind = "some")
                       => t.ret.inv = ScopedInv(t.scope, t.cmd)]_vars

\* after a store of A for d without scope and a store of B for d under
\* the scope, a lookup of d without scope has returned A
C4_Witness ==
    \E p \in Procs :
        LET t == th[p]
        IN  /\ Done(t, "lookup") /\ t.scope = "none"
            /\ t.ret.kind = "some" /\ t.ret.inv = ScopedInv("none", t.cmd)
            /\ t.prev.op = "store" /\ t.prev.ret = RetOk
            /\ t.prev.scope = "scope" /\ t.prev.cmd = t.cmd
            /\ LookupOutcome("scope", t.cmd, now).inv = ScopedInv("scope", t.cmd)

---------------------------------------------------------------------------
(* Atomic publication and concurrent lookups.                              *)

\* the steps of Cache::store between its call and its return
StorePcs == {"st_mkdir", "st_create", "st_write", "st_symlink", "st_rename"}

\* a data file that was written to its end
Complete(file) == file.ex /\ CanDeserialize(file.bytes)

\* C5: atomic publication.  Whenever the key of a store's fingerprint
\* exists before a step of that store, it exists after the step and
\* names either the data file it named before or the store's new data
\* file; when it resolved to a fully written file before the step it does
\* so after it, and a key the step has changed resolves to the fully
\* written new file.  No step of store makes the key absent or leaves it
\* at a file that is not fully written.
C5_AtomicPublication ==
    [][\A p \in Procs :
          (th[p].pc \in StorePcs /\ Steps(p)) =>
              LET t == th[p]
                  dir == key_dir(t.scope)
                  f == cache_key(t.cmd)
                  before == keys[dir][f]
                  after == keys'[dir][f]
              IN  /\ before # NoPath =>
                        /\ after # NoPath
                        /\ after \in {before, t.path}
                        /\ Complete(data[before]) => Complete(data'[after])
                  /\ after # before =>
                        /\ after = t.path
                        /\ Complete(data'[after])
                        /\ deserialize(data'[after].bytes) = t.inv]_vars

\* C5 witness: a store has replaced the key of an entry that existed, while
\* the other thread was between the open and the stat of its lookup.
C5_Witness ==
    \E p \in Procs, q \in Procs, old \in Paths :
        /\ p # q
        /\ Done(th[p], "store") /\ th[p].ret = RetOk
        /\ KeyOf(th[p].scope, th[p].cmd) = th[p].path
        /\ old # th[p].path
        /\ Complete(data[old])
        /\ th[q].pc = "lk_stat"
        /\ th[q].omtime = data[old].mtime
        /\ th[q].found = deserialize(data[old].bytes)

\* C6 as the specification states it: the stored-at time a lookup returns
\* is the mtime of the data file it read the record from.  The code reads
\* the record from the file it opened and the mtime from whatever the key
\* path names at the later metadata call.
C6_RecordAndMtimeOfOneFile ==
    \A p \in Procs :
        (Done(th[p], "lookup") /\ th[p].ret.kind = "some") =>
            th[p].ret.t = th[p].omtime

---------------------------------------------------------------------------
(* Fingerprint collisions.                                                 *)

\* C1: whenever lookup(d, max_age) returns a record, the record's
\* descriptor is d; this under every interleaving of the steps of store,
\* lookup and cleanup by two threads on colliding descriptors.
C1_RecordMatchesQuery ==
    \A p \in Procs :
        (Done(th[p], "lookup") /\ th[p].ret.kind = "some") =>
            th[p].ret.inv.command = th[p].cmd

\* C1 witness: a lookup has read the record of a colliding descriptor at
\* an age it accepts and has returned nothing, while the other thread was
\* inside a call.
C1_Witness ==
    \E p \in Procs, q \in Procs :
        /\ p # q
        /\ Done(th[p], "lookup")
        /\ th[p].ret = RetNone
        /\ th[p].found.command \in Descs \ {th[p].cmd}
        /\ cache_key(th[p].found.command) = cache_key(th[p].cmd)
        /\ th[p].age >= 0 /\ th[p].age <= th[p].dur
        /\ th[q].pc # "idle"

---------------------------------------------------------------------------
(* The cleanup lock.                                                       *)

\* where a thread is while the FileLock that try_acquire gave it is alive
LockPcs == {"cl_rate", "cl_sweep", "cl_keys", "cl_keyrm", "cl_drop"}
HoldsLock(t) == t.pc \in LockPcs

\* the lock file is older than the stale threshold
LockIsStale ==
    ElapsedOk(lock.mtime) /\ Elapsed(lock.mtime) > Secs(CleanupStaleSecs)

\* C7 as the specification states it: while a handle is held, every other
\* try_acquire returns "not acquired" (None) and leaves the lock file in
\* place.
C7_ContendedIsNone ==
    [][\A q \in Procs :
          (/\ th[q].pc \in {"cl_lock", "cl_lockage"} /\ Steps(q)
           /\ \E p \in Procs \ {q} : HoldsLock(th[p]))
              => /\ th'[q].pc = "idle" => th'[q].lockRes = "none"
                 /\ lock' = lock]_vars

\* C7, amended: at most one handle exists at any time and the lock file
\* is the holder's; while a handle is held, every other try_acquire leaves
\* the lock file as it is and gets no handle, returning None when the lock
\* file's age is at most the stale threshold (or its mtime lies in the
\* future) and the stale-lock error when the age exceeds it; the release
\* of the handle removes the lock file, and a try_acquire made while no
\* handle is held succeeds when the lock directory exists.
C7_LockExclusive ==
    [][/\ Cardinality({p \in Procs : HoldsLock(th'[p])}) <= 1
       /\ \A p \in Procs :
            HoldsLock(th'[p]) => (lock'.ex /\ lock'.pid = p)
       /\ \A q \in Procs :
            (th[q].pc = "cl_lock" /\ Steps(q)) =>
                IF \E p \in Procs \ {q} : HoldsLock(th[p])
                THEN /\ lock' = lock
                     /\ th'[q].pc = "cl_lockage"
                ELSE rootExists =>
                         /\ th'[q].lockRes = "acquired"
                         /\ HoldsLock(th'[q])
       /\ \A q \in Procs :
            (th[q].pc = "cl_lockage" /\ Steps(q)) =>
                /\ lock' = lock
                /\ th'[q].pc = "idle"
                /\ th'[q].lockRes =
                       (IF (\E p \in Procs \ {q} : HoldsLock(th[p]))
                           /\ LockIsStale
                        THEN "err_stale" ELSE "none")
       /\ \A p \in Procs :
            (th[p].pc = "cl_drop" /\ Steps(p)) => ~lock'.ex]_vars

\* C7 witness: thread q has released the lock and a later try_acquire of
\* its own has succeeded, after thread p's try_acquire was turned away
\* with the stale-lock error.
C7_Witness ==
    \E p \in Procs, q \in Procs :
        /\ p # q
        /\ Done(th[p], "cleanup") /\ th[p].lockRes = "err_stale"
        /\ HoldsLock(th[q])
        /\ th[q].prev.op = "cleanup" /\ th[q].prev.exit # ""

\* C8: a cleanup call that acquired cleanup.lock and has returned does
\* not leave the lock file it created, whichever way it returned.
C8_LockReleasedOnReturn ==
    \A p \in Procs :
        (Done(th[p], "cleanup") /\ th[p].lockRes = "acquired") =>
            /\ th[p].exit \in {"ratelimited", "error", "swept"}
            /\ ~(lock.ex /\ lock.pid = p)

\* C8 witness: one call has returned through the rate limit and the other
\* with the error of a malformed ttl directory, both after acquiring the
\* lock, and no lock file is left.
C8_Witness ==
    \E p \in Procs, q \in Procs :
        /\ Done(th[p], "cleanup") /\ th[p].lockRes = "acquired"
        /\ th[p].exit = "ratelimited" /\ th[p].ret = RetOk
        /\ Done(th[q], "cleanup") /\ th[q].lockRes = "acquired"
        /\ th[q].exit = "error" /\ th[q].ret = RetErr
        /\ ~lock.ex

---------------------------------------------------------------------------
(* What a cleanup pass leaves.                                             *)

\* the data files there are
DataFiles == {path \in Paths : data[path].ex}

\* no key and no temporary symlink of the scope's key directory is dangling
NoDangling(scope) ==
    \A e \in KeyEntries(scope) : Resolve(EntryTarget(scope, e)).ex

\* nothing is left in the key directory of the scope
KeyDirEmpty(scope) == KeyEntries(scope) = {}

\* every lookup, of every descriptor, in every scope, at every max_age,
\* returns nothing
EveryLookupMisses ==
    \A s \in Scopes, d \in Descs, m \in Durations :
        LookupOutcome(s, d, m) = RetNone

\* C9 as the specification states it, at the return of a cleanup pass that
\* acquired the lock and was not rate-limited: no data file older than
\* the seconds of its directory remains, no key of the cleaning cache's
\* key directory is dangling, last_cleanup exists; and when no data file
\* remains, nothing but last_cleanup is left under the cache root and
\* every lookup misses.
C9_AfterAnyPass ==
    [][\A p \in Procs :
          (/\ th[p].pc = "cl_drop" /\ Steps(p)
           /\ th[p].exit # "ratelimited")
              => /\ \A path \in DataFiles' :
                         ~(ElapsedOk(data'[path].mtime)
                           /\ Elapsed(data'[path].mtime) > Secs(path[1]))
                 /\ NoDangling(th[p].scope)'
                 /\ lastCleanup'.ex
                 /\ DataFiles' = {} =>
                        /\ \A s \in Scopes : KeyDirEmpty(s)'
                        /\ ~lock'.ex
                        /\ EveryLookupMisses']_vars

\* C9, amended: after a cleanup pass that acquired the lock, was not
\* rate-limited and returned success after both phases, with no
\* concurrent operation and the clock never set back: last_cleanup exists
\* and bears the time the sweep began; no data file remains whose age at
\* that time exceeded the seconds of its data/<n>/ directory; no key and
\* no temporary symlink of the cleaning cache's key directory is dangling;
\* the lock file is gone.  So when every data file was stale, no data file
\* remains, the cleaning cache's key directory is empty, what is left
\* under the cache root is last_cleanup and the dangling keys of the other
\* scopes, and every lookup in every scope returns nothing.
C9_AfterCompletedPass ==
    \A p \in Procs :
        (/\ Done(th[p], "cleanup") /\ th[p].lockRes = "acquired"
         /\ th[p].exit = "swept" /\ th[p].ret = RetOk)
            => /\ lastCleanup.ex
               /\ ElapsedOk(lastCleanup.mtime)
               /\ \A path \in DataFiles :
                      ~(lastCleanup.mtime - data[path].mtime > Secs(path[1]))
               /\ NoDangling(th[p].scope)
               /\ ~lock.ex
               /\ DataFiles = {} =>
                      /\ KeyDirEmpty(th[p].scope)
                      /\ \A s \in Scopes : \A e \in KeyEntries(s) :
                             ~Resolve(EntryTarget(s, e)).ex
                      /\ EveryLookupMisses

\* C9 witness: the pass came after a store on the same cache whose entry
\* had gone stale; it has deleted the data file and the key, and only
\* last_cleanup is left.
C9_Witness ==
    LET t == th[1]
    IN  /\ Done(t, "cleanup") /\ t.lockRes = "acquired"
        /\ t.exit = "swept" /\ t.ret = RetOk
        /\ t.prev.op = "store" /\ t.prev.ret = RetOk
        /\ t.prev.scope = t.scope
        /\ nData > 0
        /\ DataFiles = {}
        /\ \A s \in Scopes : KeyDirEmpty(s)
        /\ lastCleanup.ex

---------------------------------------------------------------------------
(* Bkt::execute                                                            *)

\* where _execute is once lookup has returned without error
PastLookup(t) ==
    t.op = "execute" /\ t.cached \in {"some", "none"}

\* the subprocess has been started, or execute has returned without it
PastSpawn(t) == t.pc \notin {"lk_open", "lk_stat", "lk_rm", "ex_miss"}

\* C10: execute runs the subprocess if and only if its lookup returned
\* nothing, and at most once.  On a hit no subprocess runs and the result
\* is the record lookup returned, runtime included, with age = now minus
\* the entry's mtime at the moment execute computes it.  On a miss the
\* subprocess runs once, and the result execute returns is the
\* subprocess's, with age zero, stored under the key in the directory of
\* the ttl's ceiling.  Hence an execute that follows an execute of the
\* same descriptor, unless its lookup judged the entry older than its ttl
\* (or its mtime in the future), runs no subprocess and returns the record
\* the first call returned.
C10_ExecuteRunsIffMiss ==
    [][LET t == th[1]
           u == th'[1]
       IN  /\ PastLookup(u) =>
               /\ u.runs <= 1
               /\ u.runs = 1 => u.cached = "none"
               /\ (u.cached = "none" /\ PastSpawn(u) /\ u.ret.kind # "err")
                      => u.runs = 1
           /\ (t.pc = "ex_hit" /\ u.pc = "idle") =>
               /\ u.runs = 0
               /\ IF ElapsedOk(t.mtime)
                  THEN /\ u.ret = RetSome(t.found, now - t.mtime)
                       /\ Resolve(KeyOf(t.scope, t.cmd)).mtime = t.mtime
                       /\ deserialize(Resolve(KeyOf(t.scope, t.cmd)).bytes)
                              = u.ret.inv
                  ELSE u.ret = RetErr
           /\ (t.pc = "ex_stored" /\ u.pc = "idle") =>
               /\ u.runs = 1
               /\ u.ret = RetSome(t.inv, 0)
               /\ t.inv.command = t.cmd
               /\ KeyOf(t.scope, t.cmd) = t.path
               /\ t.path[1] = seconds_ceiling(t.dur)
               /\ data[t.path].bytes = serialize(t.inv)
           /\ (/\ u.pc = "idle" /\ u.op = "execute" /\ t.pc # "idle"
               /\ u.prev.op = "execute" /\ u.prev.ret.kind = "some"
               /\ u.prev.scope = u.scope /\ u.prev.cmd = u.cmd
               /\ ~Rejected(u)) =>
                   /\ u.runs = 0
                   /\ u.ret.kind = "some" => u.ret.inv = u.prev.ret.inv
                   /\ u.ret.kind = "err" => ~ElapsedOk(t.mtime)]_vars

\* C10 witness: the first execute(d, ttl) missed and ran the subprocess;
\* the second, half a second later, has run nothing and returned the
\* first call's record with that age.
C10_Witness ==
    LET t == th[1]
    IN  /\ Done(t, "execute")
        /\ t.prev.op = "execute" /\ t.prev.runs = 1
        /\ t.prev.ret.kind = "some" /\ t.prev.ret.t = 0
        /\ t.prev.cmd = t.cmd /\ t.prev.dur = t.dur
        /\ t.cached = "some" /\ t.runs = 0
        /\ t.ret.kind = "some" /\ t.ret.inv = t.prev.ret.inv
        /\ t.ret.t > 0

---------------------------------------------------------------------------
(* Bkt::refresh                                                            *)

\* C11: refresh never asks the cache: whatever the key holds, it runs the
\* subprocess once, and when it returns a result this is the
\* subprocess's, published under the key.  An execute of the same
\* descriptor that follows the refresh with nothing in between, unless
\* its lookup judged the entry older than its ttl (or its mtime in the
\* future), runs no subprocess and returns the refreshed record.
C11_RefreshAlwaysRuns ==
    [][LET t == th[1]
           u == th'[1]
       IN  /\ u.op = "refresh" =>
               /\ u.pc \notin {"lk_open", "lk_stat", "lk_rm", "ex_hit"}
               /\ u.cached = ""
               /\ u.runs <= 1
               /\ (PastSpawn(u) /\ u.ret.kind # "err") => u.runs = 1
           /\ (t.op = "refresh" /\ t.pc = "ex_stored" /\ u.pc = "idle") =>
               /\ u.runs = 1
               /\ u.ret.kind = "some" /\ u.ret.inv = t.inv
               /\ t.inv.command = t.cmd
               /\ KeyOf(t.scope, t.cmd) = t.path
               /\ t.path[1] = seconds_ceiling(t.dur)
               /\ data[t.path].bytes = serialize(t.inv)
           /\ (/\ u.pc = "idle" /\ u.op = "execute" /\ t.pc # "idle"
               /\ u.prev.op = "refresh" /\ u.prev.ret.kind = "some"
               /\ u.prev.scope = u.scope /\ u.prev.cmd = u.cmd
               /\ ~Rejected(u)) =>
                   /\ u.runs = 0
                   /\ u.ret.kind = "some" => u.ret.inv = u.prev.ret.inv
                   /\ u.ret.kind = "err" => ~ElapsedOk(t.mtime)]_vars

\* C11 witness: an entry for d was in the cache; a refresh of d within its
\* ttl has run the subprocess all the same and published another record;
\* the execute after it has run nothing and returned the refreshed record.
C11_Witness ==
    LET t == th[1]
    IN  /\ Done(t, "execute") /\ t.runs = 0 /\ t.cached = "some"
        /\ t.prev.op = "refresh" /\ t.prev.runs = 1
        /\ t.prev.cmd = t.cmd
        /\ t.ret.kind = "some" /\ t.ret.inv = t.prev.ret.inv
        /\ \E old \in Paths \ {KeyOf(t.scope, t.cmd)} :
              /\ Complete(data[old])
              /\ deserialize(data[old].bytes).command = t.cmd
              /\ deserialize(data[old].bytes) # t.ret.inv
              /\ t.mtime - data[old].mtime <= t.prev.dur

---------------------------------------------------------------------------
(* Bkt::execute_and_cleanup                                                *)

\* C12: once the subprocess has run and store has succeeded,
\* execute_and_cleanup can only wait for its worker and return, and what
\* it returns is the subprocess's record with age zero, as execute does,
\* whatever the worker returned.  A worker is spawned only after lookup
\* returned nothing: on a hit there is none.
C12_CleanupErrorIgnored ==
    [][LET t == th[1]
           u == th'[1]
       IN  /\ u.op = "execute_and_cleanup" =>
               /\ u.hook # 0 => u.cached = "none"
               /\ u.cached = "some" => (u.hook = 0 /\ u.runs = 0)
           /\ (/\ t.op = "execute_and_cleanup"
               /\ t.pc \in {"ex_stored", "ex_join"} /\ u # t) =>
                   /\ u.pc \in {"ex_join", "idle"}
                   /\ u.pc = "idle" =>
                         /\ u.ret = RetSome(t.inv, 0)
                         /\ u.runs = 1
                         /\ t.hook # 0
                         /\ th[t.hook].pc = "idle"
                         /\ th[t.hook].ret \in {RetOk, RetErr}]_vars

\* C12 witness: the call has returned the record with age zero, and its
\* cleanup worker had returned an error.
C12_Witness ==
    /\ Done(th[1], "execute_and_cleanup")
    /\ th[1].runs = 1
    /\ th[1].ret = RetSome(th[1].inv, 0)
    /\ th[1].hook = 2
    /\ Done(th[2], "cleanup")
    /\ th[2].ret = RetErr

---------------------------------------------------------------------------
(* A ttl of zero.                                                          *)

\* C13 as the specification states it: store with a ttl of zero is
\* rejected before anything is created: the call panics at its first
\* step, and data/0/ never holds a file.  The code's assertion reads
\* (!ttl.as_secs()) > 0 with a bitwise not, which a zero ttl passes.
C13_ZeroTtlRejected ==
    /\ \A p \in Procs :
          (th[p].op = "store" /\ th[p].dur = 0) =>
              /\ th[p].pc \in {"st_mkdir", "idle"}
              /\ th[p].pc = "idle" => th[p].ret = RetPanic
    /\ \A path \in Paths : path[1] = 0 => ~data[path].ex

---------------------------------------------------------------------------
(* try_acquire on a lock file that exists.                                 *)

\* C14: a try_acquire that finds the lock file gets no handle and leaves
\* the file as it is, at the exclusive create and at the reading of its
\* metadata; the result is "not acquired" when the file's age is at most
\* the stale threshold and the stale-lock error when the age exceeds it.
C14_ExistingLockStays ==
    [][\A q \in Procs :
          /\ (th[q].pc = "cl_lock" /\ Steps(q) /\ lock.ex) =>
                /\ lock' = lock
                /\ th'[q].pc = "cl_lockage"
          /\ (th[q].pc = "cl_lockage" /\ Steps(q) /\ lock.ex) =>
                /\ lock' = lock
                /\ ~HoldsLock(th'[q])
                /\ (ElapsedOk(lock.mtime)
                    /\ Elapsed(lock.mtime) <= Secs(CleanupStaleSecs))
                       => th'[q].lockRes = "none"
                /\ (ElapsedOk(lock.mtime)
                    /\ Elapsed(lock.mtime) > Secs(CleanupStaleSecs))
                       => th'[q].lockRes = "err_stale"]_vars

\* C14 witness: a try_acquire has failed with the stale-lock error, and
\* the other thread's lock file is there as it was, older than the
\* threshold.
C14_Witness ==
    \E q \in Procs :
        /\ Done(th[q], "cleanup")
        /\ th[q].lockRes = "err_stale"
        /\ lock.ex /\ lock.pid # q
        /\ HoldsLock(th[lock.pid])
        /\ ElapsedOk(lock.mtime)
        /\ Elapsed(lock.mtime) > Secs(CleanupStaleSecs)

---------------------------------------------------------------------------
(* cleanup and a stale lock.                                               *)

\* C15 as the specification states it: a cleanup call that finds
\* cleanup.lock older than the stale threshold returns the stale-lock
\* error to its caller.  The code takes try_acquire's result through
\* `if let Ok(Some(_lock))` and returns Ok(()) for everything else.
C15_StaleLockSurfaced ==
    \A q \in Procs :
        (Done(th[q], "cleanup") /\ th[q].lockRes = "err_stale") =>
            th[q].ret = RetErr

---------------------------------------------------------------------------
(* A lookup that meets another descriptor's entry.                         *)

\* the thread is in a lookup that has read the record of another
\* descriptor from its key
ReadOther(t) ==
    /\ t.op = "lookup"
    /\ t.pc \in {"lk_stat", "lk_rm"}
    /\ t.found.command # t.cmd

\* C16 as the specification states it: a lookup that has read another
\* descriptor's record returns nothing and leaves the key and the data
\* files in place, whatever max_age and the entry's age are.
C16_CollisionNeverEvicts ==
    [][\A p \in Procs :
          (ReadOther(th[p]) /\ Steps(p)) =>
              /\ keys' = keys
              /\ data' = data
              /\ th'[p].pc = "idle" /\ th'[p].ret = RetNone]_vars

\* C16, amended: a lookup(d, max_age) that has read the record of another
\* descriptor d' returns nothing and leaves key and data file in place
\* when the entry's age is at most max_age; then a following lookup(d', m)
\* finds the entry and, when it accepts its age, returns the stored
\* record.  When the age exceeds max_age or the mtime lies in the future,
\* the lookup removes the key, leaves the data file, and returns nothing.
C16_CollisionEvictsOnlyStale ==
    [][\A p \in Procs :
          LET t == th[p]
              u == th'[p]
              file == Resolve(KeyOf(t.scope, t.cmd))
          IN  /\ (ReadOther(t) /\ t.pc = "lk_stat" /\ Steps(p) /\ file.ex) =>
                    /\ UNCHANGED <<keys, data>>
                    /\ IF file.mtime <= now /\ now - file.mtime <= t.dur
                       THEN u.pc = "idle" /\ u.ret = RetNone
                       ELSE u.pc = "lk_rm"
              /\ (ReadOther(t) /\ t.pc = "lk_rm" /\ Steps(p)) =>
                    /\ data' = data
                    /\ keys' = [keys EXCEPT
                                  ![key_dir(t.scope)][cache_key(t.cmd)] = NoPath]
                    /\ u.pc = "idle"
                    /\ KeyOf(t.scope, t.cmd) # NoPath => u.ret = RetNone
              /\ (/\ t.pc # "idle" /\ Done(u, "lookup")
                  /\ u.prev.op = "lookup" /\ u.prev.ret = RetNone
                  /\ u.prev.age >= 0 /\ u.prev.age <= u.prev.dur
                  /\ u.prev.scope = u.scope
                  /\ cache_key(u.prev.cmd) = cache_key(u.cmd)) =>
                    /\ u.age # -1
                    /\ u.found.command # u.prev.cmd
                    /\ (u.found.command = u.cmd /\ ~Rejected(u)) =>
                           u.ret = RetSome(u.found, u.mtime)]_vars

\* C16 witness: lookup(d, max_age) met the fresh entry of d' and returned
\* nothing; the lookup(d', m) after it has returned the stored record.
C16_Witness ==
    LET t == th[1]
    IN  /\ Done(t, "lookup") /\ t.ret.kind = "some"
        /\ t.ret.inv.command = t.cmd
        /\ t.prev.op = "lookup" /\ t.prev.ret = RetNone
        /\ t.prev.cmd # t.cmd
        /\ cache_key(t.prev.cmd) = cache_key(t.cmd)
        /\ t.prev.age >= 0 /\ t.prev.age <= t.prev.dur

---------------------------------------------------------------------------
(* Mutual exclusion of cleanup.                                            *)

\* the files cleanup reads and writes
CleanupFiles == <<data, keys, tmps, lastCleanup, lock>>

\* C17: no two cleanup calls are past the acquisition of the lock at the
\* same time, whatever their scopes; a step of a cleanup call changes a
\* file only when the call holds the lock before or after the step; and a
\* call that returns without having acquired the lock has changed nothing
\* while it ran.
C17_OneSweeper ==
    [][/\ \A p \in Procs : \A q \in Procs \ {p} :
            ~(HoldsLock(th'[p]) /\ HoldsLock(th'[q]))
       /\ \A q \in Procs :
            (th[q].op = "cleanup" /\ Steps(q)) =>
                /\ CleanupFiles' # CleanupFiles =>
                       (HoldsLock(th[q]) \/ HoldsLock(th'[q]))
                /\ th[q].pc \in {"cl_lock", "cl_lockage"} =>
                       \/ th'[q].lockRes = "acquired" /\ HoldsLock(th'[q])
                       \/ /\ UNCHANGED fsvars
                          /\ th'[q].pc \in {"cl_lockage", "idle"}
                          /\ th'[q].pc = "idle" =>
                                 th'[q].lockRes
                                     \in {"none", "err_stale", "err_io"}]_vars

\* C17 witness: one call is sweeping while a call on the other scope has
\* returned without the lock.
C17_Witness ==
    \E p \in Procs, q \in Procs :
        /\ th[p].pc \in {"cl_sweep", "cl_keys", "cl_keyrm"}
        /\ Done(th[q], "cleanup")
        /\ th[q].lockRes = "none"
        /\ th[q].scope # th[p].scope
        /\ lock.pid = p

---------------------------------------------------------------------------
(* The rate limit of cleanup.                                              *)

\* last_cleanup is there and its mtime is less than 30 seconds old
Recent(mark) ==
    mark.ex /\ mark.mtime <= now /\ now - mark.mtime < Secs(RateLimitSecs)

\* C18: a cleanup call that finds last_cleanup younger than 30 seconds
\* goes to its return with success, and changes no data file, no key and
\* not last_cleanup on the way.  last_cleanup changes only when a call
\* passes the rate limit, at the start of its sweep and before anything
\* is deleted, and then takes the present time; so a sweep starts at least
\* 30 seconds after the start of the sweep before it, and a call that
\* follows a sweep aborted by an error within 30 seconds is rate-limited.
C18_RateLimit ==
    [][/\ \A p \in Procs :
            LET t == th[p]
                u == th'[p]
            IN  /\ (t.pc = "cl_rate" /\ Steps(p) /\ Recent(lastCleanup)) =>
                      /\ u.pc = "cl_drop" /\ u.pend = RetOk
                      /\ u.exit = "ratelimited"
                      /\ UNCHANGED <<data, keys, tmps, lastCleanup>>
                /\ (t.pc = "cl_drop" /\ t.exit = "ratelimited" /\ Steps(p)) =>
                      /\ u.pc = "idle" /\ u.ret = RetOk
                      /\ UNCHANGED <<data, keys, tmps, lastCleanup>>
                /\ (t.pc = "cl_rate" /\ u.pc = "cl_sweep") =>
                      /\ lastCleanup' = [ex |-> TRUE, mtime |-> now]
                      /\ UNCHANGED <<data, keys, tmps>>
                      /\ lastCleanup.ex =>
                             now - lastCleanup.mtime >= Secs(RateLimitSecs)
                /\ (t.op = "cleanup" /\ Steps(p)
                    /\ <<data, keys, tmps>>' # <<data, keys, tmps>>) =>
                      /\ t.pc \in {"cl_sweep", "cl_keyrm"}
                      /\ lastCleanup.ex
       /\ lastCleanup' # lastCleanup =>
            \E p \in Procs : th[p].pc = "cl_rate" /\ th'[p].pc = "cl_sweep"]_vars

\* C18 witness: a sweep was aborted by the error of a malformed ttl
\* directory; the same thread's next call, less than 30 seconds later, has
\* returned success through the rate limit, and last_cleanup still bears
\* the time of the aborted sweep.
C18_Witness ==
    \E p \in Procs :
        /\ Done(th[p], "cleanup")
        /\ th[p].exit = "ratelimited" /\ th[p].ret = RetOk
        /\ th[p].prev.op = "cleanup"
        /\ th[p].prev.exit = "error" /\ th[p].prev.ret = RetErr
        /\ Recent(lastCleanup)
        /\ DataFiles # {}

---------------------------------------------------------------------------
(* A lookup racing with an eviction.                                       *)

\* C19 as the specification states it: a lookup returns a record or
\* nothing, never an error, also when the key or the data file is removed
\* by cleanup or by another lookup between its open and its return.  The
\* code reads the metadata through the key path again and removes the key
\* by its path, and passes the error of either call on with `?`.
C19_RacingLookupNeverFails ==
    \A p \in Procs :
        Done(th[p], "lookup") => th[p].ret.kind \in {"some", "none"}

---------------------------------------------------------------------------
(* Two stores racing on one fingerprint.                                   *)

\* C20 as the specification states it, in its first part: every store of
\* the race succeeds.
C20_BothSucceed ==
    \A p \in Procs : Done(th[p], "store") => th[p].ret = RetOk

\* the thread's call before this one was no cleanup
NoSweepBefore(t) == t.prev.op # "cleanup"

\* C20, amended.  A store fails only at the exclusive create of a data
\* file whose random name is taken, at the symlink call when the random
\* name of the temporary symlink is taken, or at the rename when its
\* temporary symlink is gone, which only Phase B of a cleanup running
\* during the store brings about; otherwise it
\* succeeds, and its rename leaves the key at its own data file and its
\* temporary symlink gone.  When a store returns and the other thread's
\* last call was a successful store on the same fingerprint and scope,
\* with no cleanup before either, the key names the data file of the
\* store that returns, both data files exist and differ, and no temporary
\* symlink of either is left.  No step removes a data file but Phase A of
\* cleanup, and only when the file's age exceeds the seconds of its
\* directory.
C20_RacingStores ==
    [][/\ \A p \in Procs :
            LET t == th[p]
                u == th'[p]
                dir == key_dir(t.scope)
            IN  /\ (t.op = "store" /\ t.pc \in StorePcs /\ u.pc = "idle") =>
                      IF u.ret = RetOk
                      THEN /\ t.pc = "st_rename"
                           /\ keys'[dir][cache_key(t.cmd)] = t.path
                           /\ tmps'[dir][t.tmp] = NoPath
                      ELSE /\ u.ret = RetErr
                           /\ \/ /\ t.pc = "st_create"
                                 /\ data' = data
                                 /\ \E n \in Names :
                                       data[<<seconds_ceiling(t.dur), n>>].ex
                              \/ /\ t.pc = "st_symlink"
                                 /\ tmps' = tmps
                                 /\ \E n \in TmpNames : tmps[dir][n] # NoPath
                              \/ /\ t.pc = "st_rename"
                                 /\ tmps[dir][t.tmp] = NoPath
                /\ (/\ t.op = "store" /\ t.pc = "st_rename"
                    /\ u.pc = "idle" /\ u.ret = RetOk
                    /\ NoSweepBefore(t)) =>
                      \A q \in Procs \ {p} :
                          (/\ Done(th[q], "store") /\ th[q].ret = RetOk
                           /\ NoSweepBefore(th[q])
                           /\ th[q].scope = t.scope
                           /\ cache_key(th[q].cmd) = cache_key(t.cmd)) =>
                              /\ th[q].path # t.path
                              /\ Complete(data'[th[q].path])
                              /\ Complete(data'[t.path])
                              /\ keys'[dir][cache_key(t.cmd)] = t.path
                              /\ tmps'[dir][t.tmp] = NoPath
                              /\ tmps'[dir][th[q].tmp] = NoPath
       /\ \A k \in KeyDirs, n \in TmpNames :
            (tmps[k][n] # NoPath /\ tmps'[k][n] = NoPath) =>
                \E p \in Procs :
                    /\ Steps(p)
                    /\ \/ th[p].pc = "st_rename" /\ th[p].tmp = n
                       \/ th[p].pc = "cl_keyrm"
       /\ \A path \in Paths :
            (data[path].ex /\ ~data'[path].ex) =>
                /\ \E p \in Procs : th[p].pc = "cl_sweep" /\ Steps(p)
                /\ data[path].mtime <= now
                /\ now - data[path].mtime > Secs(path[1])]_vars

\* C20 witness: both stores have succeeded; the key names the data file
\* of thread 2, which renamed last, while thread 1 wrote its data file
\* later than thread 2 did, so the two calls overlapped; both data files
\* exist and no temporary symlink is left.
C20_Witness ==
    /\ Done(th[1], "store") /\ th[1].ret = RetOk
    /\ Done(th[2], "store") /\ th[2].ret = RetOk
    /\ th[1].scope = th[2].scope
    /\ cache_key(th[1].cmd) = cache_key(th[2].cmd)
    /\ KeyOf(th[2].scope, th[2].cmd) = th[2].path
    /\ th[1].path # th[2].path
    /\ Complete(data[th[1].path]) /\ Complete(data[th[2].path])
    /\ data[th[1].path].mtime > data[th[2].path].mtime
    /\ KeyEntries(th[1].scope) = {<<"key", cache_key(th[1].cmd)>>}

---------------------------------------------------------------------------
(* Cleanup and live entries.                                               *)

\* C21: cleanup never destroys a live entry, also while stores run.  A
\* step of a cleanup call removes a data file only when the file's age
\* exceeds the seconds of its ttl directory (the ceiling of the ttl it was
\* stored with), and removes a key symlink only when the data file the key
\* names at that moment does not exist.
C21_CleanupKeepsLive ==
    [][\A p \in Procs :
          (th[p].op = "cleanup" /\ Steps(p)) =>
              /\ \A path \in Paths :
                    (data[path].ex /\ ~data'[path].ex) =>
                        /\ data[path].mtime <= now
                        /\ now - data[path].mtime > Secs(path[1])
              /\ \A f \in Fps :
                    LET key == keys[key_dir(th[p].scope)][f]
                    IN  (key # NoPath
                         /\ keys'[key_dir(th[p].scope)][f] = NoPath) =>
                            ~Resolve(key).ex]_vars

---------------------------------------------------------------------------
(* Stale eviction and a racing store.                                      *)

\* C22: the stale eviction of lookup removes only the entry it judged
\* stale.  When a step of a lookup removes the key of its fingerprint, the
\* data file the key names at that moment, if there is one, bears the
\* mtime the lookup read and found too old; a key published since by a
\* store is left alone.
C22_EvictsOnlyJudged ==
    [][\A p \in Procs :
          LET t == th[p]
              key == keys[key_dir(t.scope)][cache_key(t.cmd)]
          IN  (/\ t.op = "lookup" /\ Steps(p)
               /\ key # NoPath
               /\ keys'[key_dir(t.scope)][cache_key(t.cmd)] = NoPath) =>
                  /\ t.pc = "lk_rm"
                  /\ Resolve(key).ex =>
                        /\ Resolve(key).mtime = t.mtime
                        /\ is_stale(Resolve(key).mtime, t.dur)]_vars

---------------------------------------------------------------------------
(* Liveness of garbage collection.                                         *)

\* the data files whose age exceeds the seconds of their ttl directory
StaleFiles ==
    {path \in Paths : /\ data[path].ex
                      /\ data[path].mtime <= now
                      /\ now - data[path].mtime > Secs(path[1])}

\* the keys of a key directory whose data file is gone
DanglingKeys(dir) ==
    {f \in Fps : keys[dir][f] # NoPath /\ ~Resolve(keys[dir][f]).ex}

\* the worker under observation, and its key directory
Worker == 2
WorkerDir == key_dir("scope")

\* cleanup.lock is there and the process that created it is dead
LockLeft == lock.ex /\ th[lock.pid].pc = "dead"

\* a cleanup_thread other than the worker runs too
Competing ==
    \E p \in Procs \ {Worker} : th[p].op = "cleanup_thread"

\* the worker is in Phase B of a pass
WorkerSweepsKeys == th[Worker].pc \in {"cl_keys", "cl_keyrm"}

\* no cleanup call removes or takes over a lock file that was left behind,
\* and while it is there no data file and no key is deleted
LeftLockStays ==
    [][LockLeft =>
          /\ LockLeft'
          /\ lock'.pid = lock.pid
          /\ \A path \in Paths : data[path].ex => data'[path].ex
          /\ \A k \in KeyDirs, f \in Fps :
                keys[k][f] # NoPath => keys'[k][f] # NoPath]_vars

\* every data file older than its ttl directory is deleted in the end,
\* unless a lock file was left behind
StaleFilesGo == [](StaleFiles # {} => <>(StaleFiles = {} \/ LockLeft))

============================================================================
